---- MODULE Spec2Model ----
(***************************************************************************)
(* Dream Weaver AI: the view controller of src/App.tsx (DreamState machine, *)
(* transcription bridge, analysis call, chat round-trips) together with the *)
(* send controls of src/components/DreamDisplay.tsx.                        *)
(*                                                                         *)
(* Strings that the code trims, concatenates or measures are sequences of  *)
(* one-character strings.  An optional value (T | null) is a sequence of   *)
(* length 0 (null) or 1.  A handler runs atomically up to its first await: *)
(* React batches the state updates of one event-loop task.                 *)
(***************************************************************************)
EXTENDS Integers, Sequences, FiniteSets, TLC

(* ---------------------------- bounds ----------------------------------- *)
MaxAcc == 11            \* longest finalized accumulator explored
MaxResults == 2         \* longest results[] list of one recognition event
MaxChat == 2            \* longest chat history a send may start from
MaxInFlight == 2        \* most calls of one kind explored in flight
MaxResidual == 1        \* most events explored between stop() and the end of a session

(* ------------------------- program constants --------------------------- *)
MinTranscriptLength == 10

UnsupportedMsg == "Speech recognition is not supported in your browser."
ShortMsg == "Dream recording is too short. Please try again and describe your dream in more detail."
AnalysisFailedMsg == "Failed to analyze the dream. The spirits are troubled. Please try again."
FallbackText == <<"I'm sorry, I lost my train of thought. Could you ask that again?">>

DreamStates == {"IDLE", "RECORDING", "ANALYZING", "COMPLETE", "ERROR"}

(* ------------------------------ inputs --------------------------------- *)
\* texts a recognition result may carry
Segments == { <<" ">>, <<"a", "a", "a", "a", "a">> }
\* values the analysis service may return
AnalysisResults ==
    { [interpretation |-> "## Flight", imageUrl |-> "http://x/img.png"],
      [interpretation |-> "Water", imageUrl |-> "http://x/sea.png"] }
\* replies the chat service may return
ChatReplies == { <<"r">> }
\* texts the user may put in the input field
UserInputs == { <<>>, <<" ">>, <<" ", "q", " ">> }

(* --------------------------- pure helpers ------------------------------ *)
IsSpace(c) == c = " "

RECURSIVE TrimStart(_)
TrimStart(s) ==
    IF s # <<>> /\ IsSpace(Head(s)) THEN TrimStart(Tail(s)) ELSE s

RECURSIVE TrimEnd(_)
TrimEnd(s) ==
    IF s # <<>> /\ IsSpace(s[Len(s)]) THEN TrimEnd(SubSeq(s, 1, Len(s) - 1)) ELSE s

\* String.prototype.trim
Trim_Identity(s) == s
Trim(s) == TrimEnd(TrimStart(s))

\* a recognition event: results[] and resultIndex (0-based)
ResultLists ==
    UNION { [1..n -> [transcript : Segments, isFinal : BOOLEAN]] : n \in 1..MaxResults }
Events ==
    { e \in [results : ResultLists, resultIndex : 0..(MaxResults - 1)] :
        e.resultIndex < Len(e.results) }

\* the text of the segments an event reports as new (those from resultIndex
\* on) that are final (isFinal = TRUE) or interim (isFinal = FALSE)
RECURSIVE SegmentTextFrom(_, _, _)
SegmentTextFrom(results, j, isFinal) ==
    IF j > Len(results) THEN <<>>
    ELSE (IF results[j].isFinal = isFinal THEN results[j].transcript ELSE <<>>)
         \o SegmentTextFrom(results, j + 1, isFinal)

SegmentText(event, isFinal) == SegmentTextFrom(event.results, event.resultIndex + 1, isFinal)

\* the loop of recognition.onresult, from 0-based index i to the end:
\* returns the pair (finalTranscriptChunk, interimTranscript)
RECURSIVE OnResultLoop(_, _, _, _)
OnResultLoop(results, i, finalTranscriptChunk, interimTranscript) ==
    IF i < Len(results)
    THEN IF results[i + 1].isFinal
         THEN OnResultLoop(results, i + 1,
                           finalTranscriptChunk \o results[i + 1].transcript,
                           interimTranscript)
         ELSE OnResultLoop(results, i + 1,
                           finalTranscriptChunk,
                           interimTranscript \o results[i + 1].transcript)
    ELSE [final |-> finalTranscriptChunk, interim |-> interimTranscript]

OnResultChunks_InterimAsFinal(event) ==
    [final |-> OnResultLoop(event.results, event.resultIndex, <<>>, <<>>).final
               \o OnResultLoop(event.results, event.resultIndex, <<>>, <<>>).interim,
     interim |-> <<>>]
OnResultChunks_FromZero(event) == OnResultLoop(event.results, 0, <<>>, <<>>)
OnResultChunks(event) == OnResultLoop(event.results, event.resultIndex, <<>>, <<>>)

(* ------------------------------ state ---------------------------------- *)
VARIABLES
    dreamState,          \* useState<DreamState>
    dreamData,           \* useState<DreamData | null>
    chatHistory,         \* useState<ChatMessage[]>
    isChatLoading,       \* useState<boolean>
    error,               \* useState<string | null>
    transcript,          \* useState<string>: the displayed transcript
    finalTranscriptRef,  \* useRef(''): the finalized accumulator
    userInput,           \* DreamDisplay's useState('')
    recognition,         \* module-level recognition: TRUE when the capability exists
    recSession,          \* the platform session: "inactive", "active", "stopping"
    residual,            \* events the session delivered since stop() was called
    analysisCalls,       \* generateDreamAnalysis calls in flight
    chatCalls,           \* getChatResponse calls in flight
    lastOp,              \* history: the handler that ran last
    lastCall,            \* history: the call that resolved last and its outcome
    stateWrites,         \* history: the values the last handler passed to setDreamState, in order
    sinceStart           \* history: what happened since the last start request

vars == <<dreamState, dreamData, chatHistory, isChatLoading, error, transcript,
          finalTranscriptRef, userInput, recognition, recSession, residual,
          analysisCalls, chatCalls, lastOp, lastCall, stateWrites, sinceStart>>

NoCall == [kind |-> "none"]
FreshStart == [finals |-> <<>>, interim |-> <<>>, atStop |-> <<>>, issued |-> 0, cleared |-> FALSE]

Init ==
    /\ dreamState = "IDLE"
    /\ dreamData = <<>>
    /\ chatHistory = <<>>
    /\ isChatLoading = FALSE
    /\ error = <<>>
    /\ transcript = <<>>
    /\ finalTranscriptRef = <<>>
    /\ userInput = <<>>
    /\ recognition \in BOOLEAN
    /\ recSession = "inactive"
    /\ residual = 0
    /\ analysisCalls = <<>>
    /\ chatCalls = <<>>
    /\ lastOp = "init"
    /\ lastCall = NoCall
    /\ stateWrites = <<>>
    /\ sinceStart = FreshStart

RemoveAt(s, i) == SubSeq(s, 1, i - 1) \o SubSeq(s, i + 1, Len(s))

(* ----------------------------- renderContent --------------------------- *)
\* which controls the view of the current state offers
StartControlShown_AlsoInError == dreamState \notin {"RECORDING", "ANALYZING", "COMPLETE"}
StartControlShown == dreamState \notin {"RECORDING", "ANALYZING", "COMPLETE", "ERROR"}

StopControlShown_WhileAnalyzing == dreamState \in {"RECORDING", "ANALYZING"}
StopControlShown == dreamState = "RECORDING"

\* DreamDisplay is rendered in COMPLETE when dreamData is present
DisplayMounted == dreamState = "COMPLETE" /\ dreamData # <<>>

\* onNewDream of DreamDisplay and the Try Again button of the Error view
ResetControlShown == DisplayMounted \/ dreamState = "ERROR"

(* ----------------------------- resetState ------------------------------ *)
resetState_KeepsChat ==
    /\ ResetControlShown
    /\ dreamState' = "IDLE"
    /\ dreamData' = <<>>
    /\ error' = <<>>
    /\ transcript' = <<>>
    /\ finalTranscriptRef' = <<>>
    /\ userInput' = <<>>
    /\ chatCalls' = [i \in DOMAIN chatCalls |-> [chatCalls[i] EXCEPT !.abandoned = TRUE]]
    /\ sinceStart' = [FreshStart EXCEPT !.issued = sinceStart.issued, !.cleared = TRUE]
    /\ lastCall' = NoCall
    /\ lastOp' = "resetState"
    /\ UNCHANGED residual
    /\ stateWrites' = <<"IDLE">>
    /\ UNCHANGED <<chatHistory, isChatLoading, recognition, recSession, analysisCalls>>

resetState_KeepsData ==
    /\ ResetControlShown
    /\ dreamState' = "IDLE"
    /\ chatHistory' = <<>>
    /\ error' = <<>>
    /\ transcript' = <<>>
    /\ finalTranscriptRef' = <<>>
    /\ userInput' = <<>>
    /\ chatCalls' = [i \in DOMAIN chatCalls |-> [chatCalls[i] EXCEPT !.abandoned = TRUE]]
    /\ sinceStart' = [FreshStart EXCEPT !.issued = sinceStart.issued, !.cleared = TRUE]
    /\ lastCall' = NoCall
    /\ lastOp' = "resetState"
    /\ UNCHANGED residual
    /\ stateWrites' = <<"IDLE">>
    /\ UNCHANGED <<dreamData, isChatLoading, recognition, recSession, analysisCalls>>

resetState ==
    /\ ResetControlShown
    /\ dreamState' = "IDLE"
    /\ dreamData' = <<>>
    /\ chatHistory' = <<>>
    /\ error' = <<>>
    /\ transcript' = <<>>
    /\ finalTranscriptRef' = <<>>
    /\ userInput' = <<>>          \* DreamDisplay unmounts; its local state is dropped
    /\ chatCalls' = [i \in DOMAIN chatCalls |-> [chatCalls[i] EXCEPT !.abandoned = TRUE]]
    /\ sinceStart' = [FreshStart EXCEPT !.issued = sinceStart.issued, !.cleared = TRUE]
    /\ lastCall' = NoCall
    /\ lastOp' = "resetState"
    /\ UNCHANGED residual
    /\ stateWrites' = <<"IDLE">>
    /\ UNCHANGED <<isChatLoading, recognition, recSession, analysisCalls>>

(* ------------------------- handleStartRecording ------------------------ *)
handleStartRecording_NoErrorState ==
    /\ StartControlShown
    /\ lastOp' = "handleStartRecording"
    /\ UNCHANGED residual
    /\ IF ~recognition
       THEN /\ error' = <<UnsupportedMsg>>
            /\ stateWrites' = <<>>
            /\ UNCHANGED <<dreamState, transcript, finalTranscriptRef, recSession, sinceStart>>
       ELSE /\ transcript' = <<>>
            /\ finalTranscriptRef' = <<>>
            /\ sinceStart' = FreshStart
            /\ IF recSession = "inactive"
               THEN /\ recSession' = "active"
                    /\ dreamState' = "RECORDING"
                    /\ stateWrites' = <<"RECORDING">>
               ELSE /\ UNCHANGED <<recSession, dreamState>>
                    /\ stateWrites' = <<>>
            /\ UNCHANGED error
    /\ UNCHANGED <<dreamData, chatHistory, isChatLoading, userInput, recognition,
                   analysisCalls, chatCalls>>
    /\ lastCall' = NoCall

\* start() on a session that has not ended throws InvalidStateError: the
\* updates queued before it are kept, setDreamState(RECORDING) is not reached
handleStartRecording ==
    /\ StartControlShown
    /\ lastOp' = "handleStartRecording"
    /\ UNCHANGED residual
    /\ IF ~recognition
       THEN /\ error' = <<UnsupportedMsg>>
            /\ dreamState' = "ERROR"
            /\ stateWrites' = <<"ERROR">>
            /\ UNCHANGED <<transcript, finalTranscriptRef, recSession, sinceStart>>
       ELSE /\ transcript' = <<>>
            /\ finalTranscriptRef' = <<>>
            /\ sinceStart' = FreshStart
            /\ IF recSession = "inactive"
               THEN /\ recSession' = "active"
                    /\ dreamState' = "RECORDING"
                    /\ stateWrites' = <<"RECORDING">>
               ELSE /\ UNCHANGED <<recSession, dreamState>>
                    /\ stateWrites' = <<>>
            /\ UNCHANGED error
    /\ UNCHANGED <<dreamData, chatHistory, isChatLoading, userInput, recognition,
                   analysisCalls, chatCalls>>
    /\ lastCall' = NoCall

(* -------------------------- recognition.onresult ----------------------- *)
\* the platform delivers an event while the session runs or is stopping
onresult(event) ==
    /\ recSession \in {"active", "stopping"}
    /\ recSession = "stopping" => residual < MaxResidual
    /\ residual' = IF recSession = "stopping" THEN residual + 1 ELSE residual
    /\ LET chunks == OnResultChunks(event)
           newFinal == finalTranscriptRef \o chunks.final
       IN /\ Len(newFinal) <= MaxAcc
          /\ finalTranscriptRef' = newFinal
          /\ transcript' = newFinal \o chunks.interim
    /\ sinceStart' = IF sinceStart.cleared THEN sinceStart
                      ELSE [sinceStart EXCEPT !.finals = @ \o SegmentText(event, TRUE),
                                              !.interim = SegmentText(event, FALSE)]
    /\ lastOp' = "onresult"
    /\ stateWrites' = <<>>
    /\ UNCHANGED <<dreamState, dreamData, chatHistory, isChatLoading, error, userInput,
                   recognition, recSession, analysisCalls, chatCalls>>
    /\ lastCall' = NoCall

\* the platform ends the session (after stop(), or on its own)
onend ==
    /\ recSession \in {"active", "stopping"}
    /\ recSession' = "inactive"
    /\ residual' = 0
    /\ lastOp' = "onend"
    /\ stateWrites' = <<>>
    /\ UNCHANGED <<dreamState, dreamData, chatHistory, isChatLoading, error, transcript,
                   finalTranscriptRef, userInput, recognition, analysisCalls, chatCalls,
                   sinceStart>>
    /\ lastCall' = NoCall

(* -------------------------- handleStopRecording ------------------------ *)
\* the stop control of the Recording view; runs up to the await
handleStopRecording ==
    /\ StopControlShown
    /\ recSession' = IF recognition /\ recSession = "active" THEN "stopping" ELSE recSession
    /\ lastOp' = "handleStopRecording"
    /\ UNCHANGED residual
    /\ LET finalTranscript == Trim(finalTranscriptRef)
       IN IF Len(finalTranscript) < MinTranscriptLength
          THEN /\ error' = <<ShortMsg>>
               /\ dreamState' = "ERROR"
               /\ stateWrites' = <<"ANALYZING", "ERROR">>
               /\ sinceStart' = [sinceStart EXCEPT !.atStop = <<sinceStart.finals>>]
               /\ UNCHANGED analysisCalls
          ELSE /\ Len(analysisCalls) < MaxInFlight
               /\ dreamState' = "ANALYZING"
               /\ stateWrites' = <<"ANALYZING">>
               /\ analysisCalls' = Append(analysisCalls, [transcript |-> finalTranscript])
               /\ sinceStart' = [sinceStart EXCEPT !.atStop = <<sinceStart.finals>>,
                                                   !.issued = @ + 1]
               /\ UNCHANGED error
    /\ UNCHANGED <<dreamData, chatHistory, isChatLoading, transcript, finalTranscriptRef,
                   userInput, recognition, chatCalls>>
    /\ lastCall' = NoCall

NewDreamData_Displayed(finalTranscript, result) ==
    [transcript |-> transcript,
     interpretation |-> result.interpretation,
     imageUrl |-> result.imageUrl]

\* setDreamData({ transcript: finalTranscript, ...result })
NewDreamData(finalTranscript, result) ==
    [transcript |-> finalTranscript,
     interpretation |-> result.interpretation,
     imageUrl |-> result.imageUrl]

\* generateDreamAnalysis resolved: the continuation after the await
analysisResolved(i, result) ==
    /\ i \in DOMAIN analysisCalls
    /\ dreamData' = <<NewDreamData(analysisCalls[i].transcript, result)>>
    /\ dreamState' = "COMPLETE"
    /\ analysisCalls' = RemoveAt(analysisCalls, i)
    /\ lastCall' = [kind |-> "analysis", ok |-> TRUE,
                    transcript |-> analysisCalls[i].transcript, result |-> result]
    /\ lastOp' = "analysisResolved"
    /\ UNCHANGED residual
    /\ stateWrites' = <<"COMPLETE">>
    /\ UNCHANGED <<chatHistory, isChatLoading, error, transcript, finalTranscriptRef,
                   userInput, recognition, recSession, chatCalls, sinceStart>>

analysisRejected_NoState(i) ==
    /\ i \in DOMAIN analysisCalls
    /\ error' = <<AnalysisFailedMsg>>
    /\ stateWrites' = <<>>
    /\ analysisCalls' = RemoveAt(analysisCalls, i)
    /\ lastCall' = [kind |-> "analysis", ok |-> FALSE,
                    transcript |-> analysisCalls[i].transcript]
    /\ lastOp' = "analysisRejected"
    /\ UNCHANGED residual
    /\ UNCHANGED <<dreamState, dreamData, chatHistory, isChatLoading, transcript,
                   finalTranscriptRef, userInput, recognition, recSession, chatCalls,
                   sinceStart>>

\* generateDreamAnalysis rejected: the catch block
analysisRejected(i) ==
    /\ i \in DOMAIN analysisCalls
    /\ error' = <<AnalysisFailedMsg>>
    /\ dreamState' = "ERROR"
    /\ stateWrites' = <<"ERROR">>
    /\ analysisCalls' = RemoveAt(analysisCalls, i)
    /\ lastCall' = [kind |-> "analysis", ok |-> FALSE,
                    transcript |-> analysisCalls[i].transcript]
    /\ lastOp' = "analysisRejected"
    /\ UNCHANGED residual
    /\ UNCHANGED <<dreamData, chatHistory, isChatLoading, transcript, finalTranscriptRef,
                   userInput, recognition, recSession, chatCalls, sinceStart>>

(* ------------------------------ DreamDisplay --------------------------- *)
\* <input disabled={isChatLoading}> and <button disabled={isChatLoading}>
InputEnabled_Always == TRUE
InputEnabled == ~isChatLoading
SendButtonEnabled == ~isChatLoading

\* onChange of the input field
setUserInput(text) ==
    /\ DisplayMounted
    /\ InputEnabled
    /\ text # userInput
    /\ userInput' = text
    /\ lastOp' = "setUserInput"
    /\ UNCHANGED residual
    /\ stateWrites' = <<>>
    /\ UNCHANGED <<dreamState, dreamData, chatHistory, isChatLoading, error, transcript,
                   finalTranscriptRef, recognition, recSession, analysisCalls, chatCalls,
                   sinceStart>>
    /\ lastCall' = NoCall

handleSendMessage_NoLoading(message) ==
    IF dreamData = <<>>
    THEN UNCHANGED <<chatHistory, isChatLoading, chatCalls>>
    ELSE LET newHistory == Append(chatHistory, [role |-> "user", text |-> message])
         IN /\ Len(chatHistory) <= MaxChat
            /\ Len(chatCalls) < MaxInFlight
            /\ chatHistory' = newHistory
            /\ UNCHANGED isChatLoading
            /\ chatCalls' = Append(chatCalls, [newHistory |-> newHistory, abandoned |-> FALSE])

\* handleSendMessage of App.tsx up to the await
handleSendMessage(message) ==
    IF dreamData = <<>>
    THEN UNCHANGED <<chatHistory, isChatLoading, chatCalls>>
    ELSE LET newHistory == Append(chatHistory, [role |-> "user", text |-> message])
         IN /\ Len(chatHistory) <= MaxChat
            /\ Len(chatCalls) < MaxInFlight
            /\ chatHistory' = newHistory
            /\ isChatLoading' = TRUE
            /\ chatCalls' = Append(chatCalls, [newHistory |-> newHistory, abandoned |-> FALSE])

\* handleSend of DreamDisplay
handleSend ==
    /\ IF Trim(userInput) # <<>>
       THEN /\ handleSendMessage(Trim(userInput))
            /\ userInput' = <<>>
            /\ lastOp' = "handleSendMessage"
       ELSE /\ UNCHANGED <<chatHistory, isChatLoading, chatCalls, userInput>>
            /\ lastOp' = "handleSend"
    /\ UNCHANGED <<dreamState, dreamData, error, transcript, finalTranscriptRef,
                   recognition, recSession, analysisCalls, sinceStart>>
    /\ stateWrites' = <<>>
    /\ UNCHANGED residual
    /\ lastCall' = NoCall

\* a click on the send button
clickSend ==
    /\ DisplayMounted
    /\ SendButtonEnabled
    /\ handleSend

\* handleKeyPress with e.key === 'Enter' in the input field
handleKeyPress ==
    /\ DisplayMounted
    /\ InputEnabled
    /\ ~isChatLoading
    /\ handleSend

\* getChatResponse resolved: the try continuation and the finally block
chatResolved(i, modelResponse) ==
    /\ i \in DOMAIN chatCalls
    /\ chatHistory' = Append(chatCalls[i].newHistory, [role |-> "model", text |-> modelResponse])
    /\ isChatLoading' = FALSE
    /\ chatCalls' = RemoveAt(chatCalls, i)
    /\ lastCall' = [kind |-> "chat", ok |-> TRUE, abandoned |-> chatCalls[i].abandoned]
    /\ lastOp' = "chatResolved"
    /\ UNCHANGED residual
    /\ stateWrites' = <<>>
    /\ UNCHANGED <<dreamState, dreamData, error, transcript, finalTranscriptRef, userInput,
                   recognition, recSession, analysisCalls, sinceStart>>

chatRejected_ToError(i) ==
    /\ i \in DOMAIN chatCalls
    /\ error' = <<AnalysisFailedMsg>>
    /\ dreamState' = "ERROR"
    /\ stateWrites' = <<"ERROR">>
    /\ isChatLoading' = FALSE
    /\ chatCalls' = RemoveAt(chatCalls, i)
    /\ lastCall' = [kind |-> "chat", ok |-> FALSE, abandoned |-> chatCalls[i].abandoned]
    /\ lastOp' = "chatRejected"
    /\ UNCHANGED residual
    /\ UNCHANGED <<dreamData, chatHistory, transcript, finalTranscriptRef, userInput,
                   recognition, recSession, analysisCalls, sinceStart>>

\* getChatResponse rejected: the catch and the finally block
chatRejected(i) ==
    /\ i \in DOMAIN chatCalls
    /\ chatHistory' = Append(chatCalls[i].newHistory, [role |-> "model", text |-> FallbackText])
    /\ stateWrites' = <<>>
    /\ isChatLoading' = FALSE
    /\ chatCalls' = RemoveAt(chatCalls, i)
    /\ lastCall' = [kind |-> "chat", ok |-> FALSE, abandoned |-> chatCalls[i].abandoned]
    /\ lastOp' = "chatRejected"
    /\ UNCHANGED residual
    /\ UNCHANGED <<dreamState, dreamData, error, transcript, finalTranscriptRef, userInput,
                   recognition, recSession, analysisCalls, sinceStart>>

(* --------------------------- specification ----------------------------- *)
Next ==
    \/ resetState
    \/ handleStartRecording
    \/ \E event \in Events : onresult(event)
    \/ onend
    \/ handleStopRecording
    \/ \E i \in 1..MaxInFlight, result \in AnalysisResults : analysisResolved(i, result)
    \/ \E i \in 1..MaxInFlight : analysisRejected(i)
    \/ \E text \in UserInputs : setUserInput(text)
    \/ clickSend
    \/ handleKeyPress
    \/ \E i \in 1..MaxInFlight, modelResponse \in ChatReplies : chatResolved(i, modelResponse)
    \/ \E i \in 1..MaxInFlight : chatRejected(i)

Spec == Init /\ [][Next]_vars

\* every issued analysis call settles: the promise of generateDreamAnalysis
\* resolves or rejects
AnalysisSettles ==
    \E i \in 1..MaxInFlight :
        \/ \E result \in AnalysisResults : analysisResolved(i, result)
        \/ analysisRejected(i)

FairSpec == Spec /\ WF_vars(AnalysisSettles)

TypeOK ==
    /\ dreamState \in DreamStates
    /\ Len(dreamData) <= 1
    /\ Len(error) <= 1
    /\ isChatLoading \in BOOLEAN
    /\ recSession \in {"inactive", "active", "stopping"}

(* ------------------------------ properties ----------------------------- *)
\* the length of s without its leading and trailing spaces
NonSpaceAt(s) == { k \in 1..Len(s) : s[k] # " " }
TrimmedLen(s) ==
    IF NonSpaceAt(s) = {} THEN 0
    ELSE (CHOOSE hi \in NonSpaceAt(s) : \A k \in NonSpaceAt(s) : k <= hi)
         - (CHOOSE lo \in NonSpaceAt(s) : \A k \in NonSpaceAt(s) : lo <= k) + 1

\* C1: a stop in Recording whose trimmed accumulator has fewer than 10
\* characters ends in Error with the short-transcript message, and no
\* analysis call is issued for that attempt (none is in flight, none was
\* issued since the start, for as long as the short-transcript error stands).
C1_ShortStopIsError ==
    /\ (lastOp = "handleStopRecording" /\ TrimmedLen(finalTranscriptRef) < 10)
          => (dreamState = "ERROR" /\ error = <<ShortMsg>>)
    /\ error = <<ShortMsg>> => (sinceStart.issued = 0 /\ analysisCalls = <<>>)

\* a stop on an accumulator of 10 or more characters that trims to fewer
C1_Witness ==
    /\ lastOp = "handleStopRecording"
    /\ Len(finalTranscriptRef) >= 10
    /\ TrimmedLen(finalTranscriptRef) < 10
    /\ dreamState = "ERROR"

\* C2: right after an analysis call resolves successfully the state is
\* Complete and DreamData holds the transcript that was passed to the call
\* and the interpretation and imageUrl the call returned.
C2_SuccessStoresResult ==
    lastOp = "analysisResolved" =>
        /\ dreamState = "COMPLETE"
        /\ Len(dreamData) = 1
        /\ dreamData[1].transcript = lastCall.transcript
        /\ dreamData[1].interpretation = lastCall.result.interpretation
        /\ dreamData[1].imageUrl = lastCall.result.imageUrl
        /\ TrimmedLen(lastCall.transcript) = Len(lastCall.transcript)

\* a success whose transcript differs from what the screen showed at the end
C2_Witness ==
    /\ lastOp = "analysisResolved"
    /\ dreamData # <<>>
    /\ dreamData[1].transcript # transcript
    /\ dreamData[1].transcript # finalTranscriptRef

\* C3: right after an analysis call fails the state is Error, the error
\* message is set and not empty, and no DreamData is stored.
C3_FailureIsError ==
    lastOp = "analysisRejected" =>
        /\ dreamState = "ERROR"
        /\ Len(error) = 1
        /\ error[1] # ""
        /\ dreamData = <<>>

C3_Witness == lastOp = "analysisRejected" /\ lastCall.kind = "analysis" /\ ~lastCall.ok

\* C4: from a start request until the transcript is cleared again, the
\* displayed transcript is the text of all final segments the events
\* reported as new so far, followed by the interim segments of the most
\* recent event only.
C4_DisplayedTranscript ==
    ~sinceStart.cleared => transcript = sinceStart.finals \o sinceStart.interim

\* an event with interim text delivered after final text was accumulated
C4_Witness ==
    /\ lastOp = "onresult"
    /\ dreamState = "RECORDING"
    /\ Len(sinceStart.finals) >= 10
    /\ sinceStart.interim # <<>>

\* C5: a send appends exactly one user message to the chat history, and the
\* resolution of a chat call appends exactly one model message (the fixed
\* fallback when it failed); nothing else is added or removed.
C5_RoundTripAppendsOneEach ==
    [][ /\ lastOp' = "handleSendMessage" =>
              \E text \in UserInputs :
                  chatHistory' = Append(chatHistory, [role |-> "user", text |-> Trim(text)])
        /\ lastOp' = "chatResolved" =>
              \E text \in ChatReplies :
                  chatHistory' = Append(chatHistory, [role |-> "model", text |-> text])
        /\ lastOp' = "chatRejected" =>
              chatHistory' = Append(chatHistory, [role |-> "model", text |-> FallbackText])
      ]_vars

\* C6: right after a reset the state is Idle, the displayed transcript and
\* the accumulator are empty, the chat history is empty, and there is no
\* error message and no DreamData.
C6_ResetClears ==
    lastOp = "resetState" =>
        /\ dreamState = "IDLE"
        /\ transcript = <<>>
        /\ finalTranscriptRef = <<>>
        /\ chatHistory = <<>>
        /\ error = <<>>
        /\ dreamData = <<>>

\* a reset of a Complete view whose conversation had a call outstanding
C6_Witness == lastOp = "resetState" /\ chatCalls # <<>> /\ dreamState = "IDLE"

\* C7: the resolution of a chat call that was in flight when a reset was
\* requested leaves the chat history unchanged.
C7_AbandonedCallLeavesHistory ==
    [][ (lastCall'.kind = "chat" /\ lastCall'.abandoned) => chatHistory' = chatHistory ]_vars

\* C8: at most one chat call is in flight, and while one is in flight the
\* loading flag that disables the send button and the Enter key is set.
C8_SingleChatCall ==
    /\ Len(chatCalls) <= 1
    /\ chatCalls # <<>> => isChatLoading

\* a second conversation blocked by the call of an earlier one
C8_Witness ==
    /\ Len(chatCalls) = 1
    /\ chatCalls[1].abandoned
    /\ dreamState = "COMPLETE"
    /\ isChatLoading

\* C9: at most one analysis call is in flight, and while one is in flight
\* the state is Analyzing.
C9_SingleAnalysisCall ==
    /\ Len(analysisCalls) <= 1
    /\ analysisCalls # <<>> => dreamState = "ANALYZING"

\* an analysis call in flight while the stopped session still delivers events
C9_Witness == Len(analysisCalls) = 1 /\ dreamState = "ANALYZING" /\ lastOp = "onresult"

\* C10: a chat send and the resolution of a chat call, failed ones included,
\* leave DreamState, DreamData and the error message unchanged.
C10_ChatLeavesDreamState ==
    [][ lastOp' \in {"handleSendMessage", "chatResolved", "chatRejected"} =>
            UNCHANGED <<dreamState, dreamData, error>> ]_vars

\* a failed chat call answered with the fallback inside the Complete view
C10_Witness ==
    /\ lastOp = "chatRejected"
    /\ dreamState = "COMPLETE"
    /\ chatHistory # <<>>
    /\ chatHistory[Len(chatHistory)].text = FallbackText

\* C11: when the speech-recognition capability is absent, a start request
\* in Idle ends in Error with the "not supported" message; the state is never
\* Recording and no recognition session is ever started.
C11_UnsupportedStartIsError ==
    ~recognition =>
        /\ dreamState # "RECORDING"
        /\ recSession = "inactive"
        /\ lastOp = "handleStartRecording" =>
              (dreamState = "ERROR" /\ error = <<UnsupportedMsg>>)

\* a second refused start, after the first error was reset
C11_Witness ==
    /\ ~recognition
    /\ lastOp = "handleStartRecording"
    /\ dreamState = "ERROR"
    /\ sinceStart.cleared

\* C12 (as claimed): while a chat call is outstanding and the conversation
\* is shown, the text of the input field can still be changed.
C12_InputAcceptedWhileLoading ==
    (chatCalls # <<>> /\ DisplayMounted) => ENABLED (\E text \in UserInputs : setUserInput(text))

\* C12 (amended): while a chat call is outstanding neither the text of the
\* input field is changed by the user nor a send is made: the loading flag
\* that disables the field and the send controls is set, and the field of
\* the conversation shown is empty.
C12_InputAndSendDisabledWhileLoading ==
    [][ chatCalls # <<>> =>
            /\ lastOp' \notin {"setUserInput", "handleSend", "handleSendMessage"}
            /\ isChatLoading
            /\ (DisplayMounted => userInput = <<>>) ]_vars

\* the conversation right after a send, its call outstanding
C12_Witness ==
    /\ DisplayMounted
    /\ lastOp = "handleSendMessage"
    /\ Len(chatCalls) = 1
    /\ ~chatCalls[1].abandoned

\* C13: a start request with the capability present leaves the accumulator
\* and the displayed transcript empty, and outside Recording only a start or
\* a reset changes them: events of a stopped session leave them as the stop
\* or the reset left them.
C13_TranscriptStableOutsideRecording ==
    [][ /\ (lastOp' = "handleStartRecording" /\ recognition) =>
              (finalTranscriptRef' = <<>> /\ transcript' = <<>>)
        /\ (dreamState # "RECORDING" /\ lastOp' \notin {"handleStartRecording", "resetState"}) =>
              UNCHANGED <<finalTranscriptRef, transcript>> ]_vars

\* the transitions of the DreamState table, each with the event that takes it
TableStep(from, to) ==
    \/ from = "IDLE" /\ to = "RECORDING" /\ lastOp' = "handleStartRecording" /\ recognition
    \/ from = "IDLE" /\ to = "ERROR" /\ lastOp' = "handleStartRecording" /\ ~recognition
    \/ from = "RECORDING" /\ to = "ANALYZING" /\ lastOp' = "handleStopRecording"
    \/ from = "ANALYZING" /\ to = "COMPLETE" /\ lastOp' = "analysisResolved"
    \/ from = "ANALYZING" /\ to = "ERROR" /\ lastOp' = "analysisRejected"
    \/ from = "ANALYZING" /\ to = "ERROR" /\ lastOp' = "handleStopRecording"
          /\ TrimmedLen(finalTranscriptRef) < 10
    \/ from \in {"COMPLETE", "ERROR"} /\ to = "IDLE" /\ lastOp' = "resetState"

\* C14: the initial state is Idle, and every change of DreamState, taken
\* write by write (the state before a handler, then each value the handler
\* passes to setDreamState, the last of which is the new state), is a
\* transition of the table; Error is left only by a reset.
C14_TransitionsOfTable ==
    /\ dreamState = "IDLE"
    /\ [][ LET path == <<dreamState>> \o stateWrites'
           IN /\ path[Len(path)] = dreamState'
              /\ \A k \in 1..(Len(path) - 1) :
                    path[k] # path[k + 1] => TableStep(path[k], path[k + 1]) ]_vars

\* a stop with a short transcript: Analyzing is written, then Error
C14_Witness ==
    /\ stateWrites = <<"ANALYZING", "ERROR">>
    /\ dreamState = "ERROR"
    /\ finalTranscriptRef # <<>>

\* C15: a stored DreamData changes only by being discarded by a reset: no
\* send, no settlement of a chat call and no recognition event delivered
\* after the stop alters it.
C15_DreamDataImmutable ==
    [][ dreamData # <<>> =>
            \/ dreamData' = dreamData
            \/ lastOp' = "resetState" /\ dreamData' = <<>> ]_vars

\* an event of the stopped session has moved the displayed transcript away
\* from the stored one
C15_Witness ==
    /\ DisplayMounted
    /\ lastOp = "onresult"
    /\ transcript # dreamData[1].transcript
    /\ finalTranscriptRef # dreamData[1].transcript

\* C16: no state is terminal.  When every issued analysis call settles,
\* Analyzing is always followed by Complete or Error; a reset is enabled in
\* every Complete and every Error state, and a stop in every Recording state.
C16_NoTerminalState ==
    /\ [](dreamState \in {"COMPLETE", "ERROR"} => ENABLED resetState)
    /\ [](dreamState = "RECORDING" => ENABLED handleStopRecording)
    /\ (dreamState = "ANALYZING") ~> (dreamState \in {"COMPLETE", "ERROR"})

\* Idle reached again after an analysis that settled
C16_Witness ==
    /\ dreamState = "IDLE"
    /\ lastOp = "resetState"
    /\ sinceStart.issued = 1

\* s without its leading and trailing spaces
TrimmedText(s) ==
    IF NonSpaceAt(s) = {} THEN <<>>
    ELSE SubSeq(s, CHOOSE lo \in NonSpaceAt(s) : \A k \in NonSpaceAt(s) : lo <= k,
                   CHOOSE hi \in NonSpaceAt(s) : \A k \in NonSpaceAt(s) : k <= hi)

\* C17: the transcript that is validated and passed to the analysis call is
\* the trimmed text of the segments delivered as final between the start
\* and the stop request (sinceStart.atStop): a call is issued exactly when
\* that text has 10 characters or more, and the call carries, and on
\* settlement reports, exactly that text.
C17_AnalysedTranscriptIsFinalsAtStop ==
    (~sinceStart.cleared /\ sinceStart.atStop # <<>>) =>
        /\ sinceStart.issued = (IF TrimmedLen(sinceStart.atStop[1]) >= 10 THEN 1 ELSE 0)
        /\ \A i \in DOMAIN analysisCalls :
              analysisCalls[i].transcript = TrimmedText(sinceStart.atStop[1])
        /\ lastCall.kind = "analysis" =>
              lastCall.transcript = TrimmedText(sinceStart.atStop[1])
        /\ dreamData # <<>> => dreamData[1].transcript = TrimmedText(sinceStart.atStop[1])

\* a call in flight whose stop saw interim text on screen
C17_Witness ==
    /\ lastOp = "handleStopRecording"
    /\ Len(analysisCalls) = 1
    /\ sinceStart.interim # <<>>
    /\ Len(analysisCalls[1].transcript) < Len(finalTranscriptRef)

\* C18: DreamData is present exactly when the state is Complete.
C18_DreamDataIffComplete ==
    dreamData # <<>> <=> dreamState = "COMPLETE"

\* a Complete view with its record and a conversation under way
C18_Witness ==
    /\ dreamState = "COMPLETE"
    /\ dreamData # <<>>
    /\ chatHistory # <<>>
    /\ ~isChatLoading

\* C19: the error message is set exactly when the state is Error.
C19_ErrorIffErrorState ==
    error # <<>> <=> dreamState = "ERROR"

\* the Error view after a failed analysis
C19_Witness ==
    /\ dreamState = "ERROR"
    /\ error = <<AnalysisFailedMsg>>
    /\ lastOp # "analysisRejected"

\* the roles of a history alternate, the first being the user's
Alternates(history) ==
    \A k \in 1..Len(history) :
        history[k].role = (IF k % 2 = 1 THEN "user" ELSE "model")

\* C20: the chat history alternates user, model, user, model, ... and the
\* isChatLoading flag is set exactly when a chat call is in flight.
C20_AlternationAndLoadingFlag ==
    /\ Alternates(chatHistory)
    /\ isChatLoading <=> chatCalls # <<>>

\* a second question asked after a first round-trip
C20_Witness ==
    /\ Len(chatHistory) = 3
    /\ isChatLoading
    /\ Len(chatCalls) = 1

====
